---- MODULE Spec2Model ----
(***************************************************************************)
(* Model of the ata-protocol reclaim / reward workflow:                    *)
(*   - the Reward Minter and its Duplicate-Mint Guard                      *)
(*     (POST /api/mint-onboarding-nft, src/unnamed/part_004),              *)
(*   - the Reclaim Executor (handleReclaim, src/src/app/page.tsx),         *)
(*   - the Room Access Authorizer (POST /api/voice-token,                  *)
(*     src/unnamed/part_005 and src/src/app/api/ata-balance/route.ts),     *)
(*   - the Account Scanner (POST /api/ata-balance, route.ts).              *)
(* Every await of a handler is a step boundary: requests interleave there. *)
(***************************************************************************)
EXTENDS Integers, Sequences, FiniteSets, TLC

\* ------------------------------------------------------------------ bounds
NumReq == 2          \* mint requests that arrive
MaxEmpty == 13       \* most empty accounts a scan reports
MaxAccounts == 2     \* token accounts in one RPC answer to the scanner
MaxCount == 16       \* associated accounts of a wallet with many of them
MaxHoldings == 2     \* token accounts of the wallet that asks for a voice token
MaxEvents == 4       \* user events on the page: wallet changes, mode
                     \* switches, submits, reclaim clicks

\* ------------------------------------------------------- program constants
RECLAIM_CHUNK_SIZE == 6

\* ------------------------------------------------------------ environment
Null == "null"
Wallets == {"w1", "w2"}
\* walletAddress as received (after trim): absent/empty, not base58, or valid
WalletInputs == {"", "not-a-key"} \cup Wallets
\* reclaimSignature as received (after trim)
SigInputs == {"", "s1", "s2", "s3", "s9"}
\* a request body that is not JSON
BadJson == [json |-> FALSE, walletAddress |-> "", reclaimSignature |-> ""]

\* The chain's confirmed transactions: signature -> fee payer (account key 0).
\* s9 is absent or not yet confirmed.
ChainFeePayer(sig) ==
  CASE sig = "s1" -> "w1"
    [] sig = "s2" -> "w1"
    [] sig = "s3" -> "w2"
    [] OTHER -> Null

\* mutant: every address parses
IsPublicKey_Any(w) == TRUE

IsPublicKey(w) == w \in Wallets

Req == 1..NumReq

VARIABLES
  config,     \* server environment: which env variables are set
  rows,       \* the nft_mints table, in created_at order; id = index
  issued,     \* tokens minted on chain, in order
  req,        \* the mint requests: position (pc), inputs, locals, response
  writes      \* history: the store writes each request made

mintVars == <<config, rows, issued, req, writes>>

VARIABLES
  walletBase58,          \* the connected wallet's address, or Null
  consultMode,           \* "wallet" | "manual"
  status,                \* RequestState of the scan
  errorMessage,
  result,                \* the scan result kept in state
  reclaiming,
  reclaimError,
  reclaimSuccess,
  reclaimSignatures,
  rewardState,
  lastFetchedWalletRef,
  scans,                 \* fetchAtaBalance calls awaiting their response
  nextScan,              \* id of the next scan
  flow,                  \* handleReclaim's position and locals
  chunkState,            \* per chunk: Pending, Submitted, Confirmed, Failed
  budget                 \* history: the user events so far

pageVars ==
  <<walletBase58, consultMode, status, errorMessage, result, reclaiming,
    reclaimError, reclaimSuccess, reclaimSignatures, rewardState,
    lastFetchedWalletRef, scans, nextScan, flow, chunkState, budget>>

VARIABLES
  auth,       \* the voice-token request: position, inputs, locals, response
  holdings,   \* the token accounts the chain holds for each wallet
  scan        \* the ata-balance request: position, inputs, RPC answer, response

authVars == <<auth, holdings>>
scanVars == <<scan>>

notMint == <<pageVars, authVars, scanVars>>
notPage == <<mintVars, authVars, scanVars>>
notAuth == <<config, issued, req, writes, pageVars, scanVars>>
notScan == <<mintVars, pageVars, authVars>>


\* ------------------------------------------------- Duplicate-Mint Guard
RowIdsOf(w) == {i \in 1..Len(rows) : rows[i].user_wallet = w}

Max(S) == CHOOSE x \in S : \A y \in S : y <= x

\* select * where user_wallet = w order by created_at desc limit 1
LatestRowId(w) == IF RowIdsOf(w) = {} THEN 0 ELSE Max(RowIdsOf(w))

\* mutant: the latest row is never taken for a success row
AlreadyMinted_Never(id) == FALSE

\* data && data.status === "success"
AlreadyMinted(id) == id # 0 /\ rows[id].status = "success"

\* mutant: the row is inserted as a success row
PendingRow_AsSuccess(w, sig) ==
  [user_wallet |-> w, status |-> "success", nft_mint_address |-> 0,
   transaction_signature |-> 0, reclaim_signature |-> sig,
   error_message |-> Null]

\* insertPayload, lines 110-117, and the columns the table fills in
PendingRow(w, sig) ==
  [user_wallet |-> w, status |-> "pending", nft_mint_address |-> 0,
   transaction_signature |-> 0, reclaim_signature |-> sig,
   error_message |-> Null]

\* mutant: the update writes the status column only
UpdatedRows_StatusOnly(id, updates) ==
  IF id = 0 THEN rows ELSE [rows EXCEPT ![id].status = updates.status]

\* updateSupabaseStatus: .update(updates).eq("id", recordId); no-op without id
UpdatedRows(id, updates) ==
  IF id = 0 THEN rows
  ELSE [rows EXCEPT ![id] =
          [f \in DOMAIN rows[id] |->
             IF f \in DOMAIN updates THEN updates[f] ELSE rows[id][f]]]

\* ------------------------------------------------------- Reward Minter
\* fetchTransactionOwner: the fee payer, or null when the transaction is
\* absent/unconfirmed or the RPC call throws (caught inside)
FetchTransactionOwnerResults(sig) == {ChainFeePayer(sig), Null}

\* connection.getTransaction: it answers (with the transaction or with
\* nothing) or it throws
GetTransactionOutcomes == {"answers", "throws"}

\* fetchTransactionOwner, lines 155-168: the catch turns a throw into null
FetchTransactionOwner(sig, outcome) ==
  IF outcome = "throws" THEN {Null} ELSE FetchTransactionOwnerResults(sig)

\* mutant: a fetch that yielded nothing is let through
ReclaimVerified_NullPasses(feePayer, wallet) ==
  feePayer = wallet \/ feePayer = Null

\* if (feePayer !== walletAddress) reject
ReclaimVerified(feePayer, wallet) == feePayer = wallet

IdleReq ==
  [pc |-> "idle", wallet |-> "", sig |-> "", recordId |-> 0, after |-> {},
   updateError |-> FALSE, threw |-> FALSE, rpcThrew |-> FALSE,
   http |-> 0, reason |-> "", mintAddress |-> 0, signature |-> 0,
   msg |-> ""]

Respond(r, http, reason, mint, sig, msg) ==
  [req EXCEPT ![r].pc = "done", ![r].http = http, ![r].reason = reason,
              ![r].mintAddress = mint, ![r].signature = sig, ![r].msg = msg]

DoneReqs == {q \in Req : req[q].pc = "done"}

MintInit ==
  /\ config \in [nft : BOOLEAN, collection : BOOLEAN, admin : BOOLEAN,
                  supabase : BOOLEAN, livekit : {TRUE}]
  /\ rows = <<>>
  /\ issued = <<>>
  /\ req = [r \in Req |-> IdleReq]
  /\ writes = {}

\* POST, lines 171-251: everything before the first chain call
MintReceive(r, body) ==
  /\ req[r].pc = "idle"
  /\ \A q \in Req : q < r => req[q].pc # "idle"
  /\ LET w == body.walletAddress
         s == body.reclaimSignature
         in0 == [req EXCEPT ![r].wallet = w, ![r].sig = s,
                            ![r].after = DoneReqs]
         Reject(http, reason) ==
           [in0 EXCEPT ![r].pc = "done", ![r].http = http,
                       ![r].reason = reason, ![r].msg = "fixed"]
     IN  req' =
           IF ~config.nft \/ ~config.collection
           THEN Reject(500, "missing_env")
           ELSE IF ~body.json THEN Reject(400, "invalid_json")
           ELSE IF w = "" THEN Reject(400, "missing_wallet")
           ELSE IF s = "" THEN Reject(400, "missing_signature")
           ELSE IF ~IsPublicKey(w) THEN Reject(400, "invalid_wallet")
           ELSE IF ~config.admin THEN
             \* loadAdminKeypair throws outside any try: no JSON body
             [in0 EXCEPT ![r].pc = "done", ![r].http = 500,
                         ![r].reason = "unhandled", ![r].msg = "none"]
           ELSE IF ~config.supabase THEN Reject(500, "supabase_not_configured")
           ELSE [in0 EXCEPT ![r].pc = "verify"]
  /\ UNCHANGED <<config, rows, issued, writes>>
  /\ UNCHANGED notMint

\* POST, lines 253-277: await fetchTransactionOwner, compare with the wallet
MintVerifyReclaim(r) ==
  /\ req[r].pc = "verify"
  /\ \E outcome \in GetTransactionOutcomes :
     \E feePayer \in FetchTransactionOwner(req[r].sig, outcome) :
       req' = IF ReclaimVerified(feePayer, req[r].wallet)
              THEN [req EXCEPT ![r].pc = "lookup"]
              ELSE [Respond(r, 400, "invalid_reclaim_signature", 0, 0, "fixed")
                      EXCEPT ![r].rpcThrew = (outcome = "throws")]
  /\ UNCHANGED <<config, rows, issued, writes>>
  /\ UNCHANGED notMint

\* ensureNoDuplicateMint, lines 94-108: the select and its two early exits
MintLookup(r) ==
  /\ req[r].pc = "lookup"
  /\ \/ \* error: throws, caught by POST (pendingRecordId is still null)
        req' = Respond(r, 500, "mint_failed", 0, 0, "internal")
     \/ LET id == LatestRowId(req[r].wallet)
        IN  req' = IF AlreadyMinted(id)
                   THEN Respond(r, 200, "already_minted",
                                rows[id].nft_mint_address, 0, "fixed")
                   ELSE [req EXCEPT ![r].pc = "insert"]
  /\ UNCHANGED <<config, rows, issued, writes>>
  /\ UNCHANGED notMint

\* ensureNoDuplicateMint, lines 110-129, and POST line 305
MintInsert(r) ==
  /\ req[r].pc = "insert"
  /\ \/ \* insertError: throws, caught by POST (pendingRecordId is still null)
        /\ req' = Respond(r, 500, "mint_failed", 0, 0, "internal")
        /\ UNCHANGED <<rows, writes>>
     \/ /\ rows' = Append(rows, PendingRow(req[r].wallet, req[r].sig))
        /\ req' = [req EXCEPT ![r].pc = "issue", ![r].recordId = Len(rows) + 1]
        /\ writes' = writes \cup {<<r, "insert", Len(rows) + 1>>}
  /\ UNCHANGED <<config, issued>>
  /\ UNCHANGED notMint

\* POST, lines 307-329: getBalance and metaplex.nfts().create with a fresh
\* mint keypair; either may throw
MintIssue(r) ==
  /\ req[r].pc = "issue"
  /\ \/ /\ issued' = Append(issued, [mint |-> Len(issued) + 1,
                                      owner |-> req[r].wallet, by |-> r])
        /\ req' = [req EXCEPT ![r].pc = "record_success",
                              ![r].mintAddress = Len(issued) + 1,
                              ![r].signature = Len(issued) + 1]
     \/ /\ req' = [req EXCEPT ![r].pc = "record_failed", ![r].threw = TRUE]
        /\ UNCHANGED issued
  /\ UNCHANGED <<config, rows, writes>>
  /\ UNCHANGED notMint

\* POST, lines 331-347: updateSupabaseStatus(success), then the response.
\* An update error is logged and swallowed.
MintRecordSuccess(r) ==
  /\ req[r].pc = "record_success"
  /\ \/ /\ rows' = UpdatedRows(req[r].recordId,
                     [status |-> "success",
                      nft_mint_address |-> req[r].mintAddress,
                      transaction_signature |-> req[r].signature,
                      error_message |-> Null])
        /\ writes' = writes \cup {<<r, "update", req[r].recordId>>}
        /\ req' = Respond(r, 200, "minted", req[r].mintAddress,
                          req[r].signature, "fixed")
     \/ \* the update returns an error: console.error, nothing else
        /\ UNCHANGED <<rows, writes>>
        /\ req' = [Respond(r, 200, "minted", req[r].mintAddress,
                           req[r].signature, "fixed")
                     EXCEPT ![r].updateError = TRUE]
  /\ UNCHANGED <<config, issued>>
  /\ UNCHANGED notMint

\* mutant: the catch block leaves the status as it is
FailedUpdate_StatusKept == [status |-> "pending", error_message |-> "error"]

\* lines 350-356: the updates of the catch block
FailedUpdate == [status |-> "failed", error_message |-> "error"]

\* POST, lines 348-368: the catch after a failed issuance
MintRecordFailed(r) ==
  /\ req[r].pc = "record_failed"
  /\ \/ /\ rows' = UpdatedRows(req[r].recordId, FailedUpdate)
        /\ writes' = writes \cup {<<r, "update", req[r].recordId>>}
        /\ req' = Respond(r, 500, "mint_failed", 0, 0, "internal")
     \/ \* the update returns an error: console.error, nothing else
        /\ UNCHANGED <<rows, writes>>
        /\ req' = [Respond(r, 500, "mint_failed", 0, 0, "internal")
                     EXCEPT ![r].updateError = TRUE]
  /\ UNCHANGED <<config, issued>>
  /\ UNCHANGED notMint

MintBodies ==
  {BadJson} \cup [json : {TRUE}, walletAddress : WalletInputs,
                   reclaimSignature : SigInputs]

MintNext ==
  \E r \in Req :
    \/ \E body \in MintBodies : MintReceive(r, body)
    \/ MintVerifyReclaim(r)
    \/ MintLookup(r)
    \/ MintInsert(r)
    \/ MintIssue(r)
    \/ MintRecordSuccess(r)
    \/ MintRecordFailed(r)

\* ============================================================ page.tsx
Min(a, b) == IF a < b THEN a ELSE b

\* mutant: the slice takes one element more
Slice_OneMore(array, index, size) ==
  SubSeq(array, index + 1, Min(index + size + 1, Len(array)))

\* array.slice(index, index + size), index counted from 0
Slice(array, index, size) ==
  SubSeq(array, index + 1, Min(index + size, Len(array)))

RECURSIVE ChunkFrom(_, _, _)
\* the for loop of chunkArray: index = 0; index < array.length; index += size
ChunkFrom(array, size, index) ==
  IF index < Len(array)
  THEN <<Slice(array, index, size)>> \o ChunkFrom(array, size, index + size)
  ELSE <<>>

chunkArray(array, size) ==
  IF size <= 0 THEN <<array>> ELSE ChunkFrom(array, size, 0)

NoResult == [present |-> FALSE, walletAddress |-> Null, accounts |-> <<>>]

Accounts(n) == [i \in 1..n |-> i]

\* the numbers of empty accounts a scan may report
ScanCounts == {0, RECLAIM_CHUNK_SIZE, MaxEmpty}

\* what POST /api/ata-balance may answer for an address, as the page sees it:
\* "error" is a non-ok or success:false answer, "throw" a failed fetch
ScanAnswers(address) ==
  {[kind |-> "error", result |-> NoResult],
   [kind |-> "throw", result |-> NoResult]}
  \cup (IF IsPublicKey(address)
        THEN {[kind |-> "ok",
               result |-> [present |-> TRUE, walletAddress |-> address,
                           accounts |-> Accounts(n)]] : n \in ScanCounts}
        ELSE {})

\* what POST /api/mint-onboarding-nft may answer, as the page sees it
MintAnswers ==
  {[ok |-> TRUE, status |-> "minted", mintAddress |-> 1, signature |-> 1],
   [ok |-> TRUE, status |-> "minted", mintAddress |-> 0, signature |-> 0],
   [ok |-> TRUE, status |-> "already_minted", mintAddress |-> 1,
    signature |-> 0],
   [ok |-> FALSE, status |-> "error", mintAddress |-> 0, signature |-> 0],
   [ok |-> FALSE, status |-> "throw", mintAddress |-> 0, signature |-> 0]}

Reward(st) == [status |-> st, mintAddress |-> 0, signature |-> 0]

\* no request to /api/mint-onboarding-nft was sent
NoRequest == [walletAddress |-> Null, reclaimSignature |-> 0]

\* mutant: the request carries the signature of the last chunk
MintRequestBody_LastSignature(wallet, signatures) ==
  [walletAddress |-> wallet, reclaimSignature |-> signatures[Len(signatures)]]

\* handleReclaim, lines 432-435: the body of the mint request
MintRequestBody(wallet, signatures) ==
  [walletAddress |-> wallet, reclaimSignature |-> signatures[1]]

IdleFlow ==
  [pc |-> "idle", wallet |-> Null, accounts |-> <<>>, chunks |-> <<>>,
   index |-> 0, transactions |-> <<>>, collectedSignatures |-> <<>>, failed |-> FALSE, awaits |-> 0,
   refreshes |-> 0, mintSent |-> FALSE, mintRequest |-> NoRequest,
   since |-> 0]

PageInit ==
  /\ walletBase58 = Null
  /\ consultMode = "wallet"
  /\ status = "idle"
  /\ errorMessage = ""
  /\ result = NoResult
  /\ reclaiming = FALSE
  /\ reclaimError = ""
  /\ reclaimSuccess = Null
  /\ reclaimSignatures = <<>>
  /\ rewardState = Reward("idle")
  /\ lastFetchedWalletRef = Null
  /\ scans = {}
  /\ nextScan = 1
  /\ flow = IdleFlow
  /\ chunkState = <<>>
  /\ budget = 0

isWalletMode == consultMode = "wallet"

\* the effects that run after walletBase58 or consultMode changed
\* (lines 226-228 and 289-316): the reward is reset; the auto-fetch effect
\* clears or scans. w and mode are the new values.
AfterWalletOrModeChange(w, mode) ==
  /\ walletBase58' = w
  /\ consultMode' = mode
  /\ rewardState' = Reward("idle")
  /\ budget' = budget + 1
  /\ IF mode # "wallet"
     THEN /\ lastFetchedWalletRef' = Null
          /\ reclaimError' = ""
          /\ reclaimSuccess' = Null
          /\ reclaimSignatures' = <<>>
          /\ UNCHANGED <<status, errorMessage, result, scans, nextScan>>
     ELSE IF w = Null
     THEN /\ lastFetchedWalletRef' = Null
          /\ UNCHANGED <<status, errorMessage, result, scans, nextScan,
                         reclaimError, reclaimSuccess, reclaimSignatures>>
     ELSE IF lastFetchedWalletRef = w
     THEN UNCHANGED <<lastFetchedWalletRef, status, errorMessage, result,
                      scans, nextScan, reclaimError, reclaimSuccess,
                      reclaimSignatures>>
     ELSE \* fetchAtaBalance(currentKey)
          /\ lastFetchedWalletRef' = w
          /\ status' = "loading"
          /\ errorMessage' = ""
          /\ result' = NoResult
          /\ reclaimError' = ""
          /\ reclaimSuccess' = Null
          /\ reclaimSignatures' = <<>>
          /\ scans' = scans \cup {[id |-> nextScan, address |-> w]}
          /\ nextScan' = nextScan + 1
  /\ UNCHANGED <<reclaiming, flow, chunkState>>

\* the wallet adapter connects, switches or disconnects a wallet
WalletChange(w) ==
  /\ UNCHANGED notPage
  /\ budget < MaxEvents
  /\ w # walletBase58
  /\ AfterWalletOrModeChange(w, consultMode)

\* setConsultMode, lines 794 and 811
SetConsultMode(mode) ==
  /\ UNCHANGED notPage
  /\ budget < MaxEvents
  /\ mode # consultMode
  /\ AfterWalletOrModeChange(walletBase58, mode)

\* handleSubmit, lines 318-355, with fetchAtaBalance's synchronous part
\* (lines 230-246); manualAddress is the trimmed text of the input field
HandleSubmit(manualAddress) ==
  /\ UNCHANGED notPage
  /\ budget < MaxEvents
  /\ status # "loading"
  /\ LET address == IF isWalletMode THEN walletBase58 ELSE manualAddress
     IN  IF address = Null \/ address = ""
         THEN /\ status' = "error"
              /\ errorMessage' = "validation"
              /\ UNCHANGED <<result, reclaimError, reclaimSuccess,
                             reclaimSignatures, scans, nextScan>>
         ELSE /\ status' = "loading"
              /\ errorMessage' = ""
              /\ result' = NoResult
              /\ reclaimError' = ""
              /\ reclaimSuccess' = Null
              /\ reclaimSignatures' = <<>>
              /\ scans' = scans \cup {[id |-> nextScan, address |-> address]}
              /\ nextScan' = nextScan + 1
  /\ budget' = budget + 1
  /\ UNCHANGED <<walletBase58, consultMode, reclaiming, rewardState,
                 lastFetchedWalletRef, flow, chunkState>>

\* fetchAtaBalance, lines 230-246: the synchronous part, up to the fetch
FetchAtaBalanceStart(address) ==
  /\ status' = "loading"
  /\ errorMessage' = ""
  /\ result' = NoResult
  /\ reclaimError' = ""
  /\ reclaimSuccess' = Null
  /\ reclaimSignatures' = <<>>
  /\ scans' = scans \cup {[id |-> nextScan, address |-> address]}
  /\ nextScan' = nextScan + 1

\* fetchAtaBalance, lines 248-285: the answer of the scan arrives
FetchAtaBalanceSettle(sc, ans) ==
  /\ scans' = scans \ {sc}
  /\ IF ans.kind = "ok"
     THEN /\ result' = ans.result
          /\ status' = "success"
          /\ UNCHANGED errorMessage
     ELSE /\ status' = "error"
          /\ errorMessage' = ans.kind
          /\ UNCHANGED result

\* a scan that no reclaim flow is waiting for answers
ScanResponse(sc, ans) ==
  /\ UNCHANGED notPage
  /\ sc \in scans
  /\ ~(flow.pc \in {"refresh", "refresh_failed"} /\ flow.awaits = sc.id)
  /\ FetchAtaBalanceSettle(sc, ans)
  /\ UNCHANGED <<walletBase58, consultMode, reclaiming, reclaimError,
                 reclaimSuccess, reclaimSignatures, rewardState,
                 lastFetchedWalletRef, nextScan, flow, chunkState, budget>>

\* mutant: any scan result in state is taken for the connected wallet's
ResultOfConnectedWallet_AnyResult == result.present

\* line 367: result && result.walletAddress === walletBase58
ResultOfConnectedWallet ==
  result.present /\ result.walletAddress = walletBase58

\* handleReclaim, lines 357-385: the guards, the state reset and the first
\* sendTransaction call
HandleReclaim ==
  /\ UNCHANGED notPage
  /\ budget < MaxEvents
  /\ flow.pc \in {"idle", "done"}
  /\ budget' = budget + 1
  /\ IF ~isWalletMode
     THEN UNCHANGED <<reclaimError, reclaiming, reclaimSuccess,
                      reclaimSignatures, rewardState, flow, chunkState>>
     ELSE IF walletBase58 = Null
     THEN /\ reclaimError' = "connect"
          /\ UNCHANGED <<reclaiming, reclaimSuccess, reclaimSignatures,
                         rewardState, flow, chunkState>>
     ELSE IF ~ResultOfConnectedWallet
     THEN /\ reclaimError' = "mismatch"
          /\ UNCHANGED <<reclaiming, reclaimSuccess, reclaimSignatures,
                         rewardState, flow, chunkState>>
     ELSE IF Len(result.accounts) = 0
     THEN /\ reclaimError' = "empty"
          /\ UNCHANGED <<reclaiming, reclaimSuccess, reclaimSignatures,
                         rewardState, flow, chunkState>>
     ELSE LET chunks == chunkArray(result.accounts, RECLAIM_CHUNK_SIZE)
          IN  /\ reclaiming' = TRUE
              /\ reclaimError' = ""
              /\ reclaimSuccess' = Null
              /\ reclaimSignatures' = <<>>
              /\ rewardState' = Reward("pending")
              /\ flow' = [IdleFlow EXCEPT !.pc = "send",
                                          !.wallet = walletBase58,
                                          !.accounts = result.accounts,
                                          !.chunks = chunks, !.index = 1,
                                          !.since = budget + 1]
              /\ chunkState' = [i \in 1..Len(chunks) |-> "Pending"]
  /\ UNCHANGED <<walletBase58, consultMode, status, errorMessage, result,
                 lastFetchedWalletRef, scans, nextScan>>

\* mutant: the catch block ends the flow without a refresh scan
ReclaimCatch_NoRefresh ==
  /\ rewardState' = Reward("error")
  /\ reclaimError' = "failed"
  /\ flow' = [flow EXCEPT !.pc = "done", !.failed = TRUE]
  /\ UNCHANGED <<walletBase58, consultMode, reclaiming, lastFetchedWalletRef,
                 budget, status, errorMessage, result, reclaimSuccess,
                 reclaimSignatures, scans, nextScan>>

\* handleReclaim, lines 478-487: the catch block, up to fetchAtaBalance's
\* fetch. setReclaimError is followed, in the same synchronous run, by
\* fetchAtaBalance's setReclaimError("").
ReclaimCatch ==
  /\ rewardState' = Reward("error")
  /\ FetchAtaBalanceStart(flow.wallet)
  /\ flow' = [flow EXCEPT !.pc = "refresh_failed", !.failed = TRUE,
                          !.awaits = nextScan, !.refreshes = @ + 1]
  /\ UNCHANGED <<walletBase58, consultMode, reclaiming, lastFetchedWalletRef,
                 budget>>

\* mutant: the confirmation is not awaited, the next chunk is sent at once
ReclaimSend_NoAwait ==
  /\ UNCHANGED notPage
  /\ flow.pc = "send"
  /\ \/ /\ chunkState' = [chunkState EXCEPT ![flow.index] = "Submitted"]
        /\ flow' = [flow EXCEPT
                      !.transactions = Append(@, flow.chunks[flow.index]),
                      !.collectedSignatures = Append(@, flow.index),
                      !.pc = IF flow.index < Len(flow.chunks)
                             THEN "send" ELSE "confirm",
                      !.index = IF flow.index < Len(flow.chunks)
                                THEN @ + 1 ELSE @]
        /\ UNCHANGED <<walletBase58, consultMode, status, errorMessage,
                       result, reclaiming, reclaimError, reclaimSuccess,
                       reclaimSignatures, rewardState, lastFetchedWalletRef,
                       scans, nextScan, budget>>
     \/ /\ chunkState' = [chunkState EXCEPT ![flow.index] = "Failed"]
        /\ ReclaimCatch

\* handleReclaim, lines 401-404: sendTransaction of the current chunk settles
ReclaimSend ==
  /\ UNCHANGED notPage
  /\ flow.pc = "send"
  /\ \/ \* resolved with the signature: pushed, confirmTransaction is awaited
        /\ chunkState' = [chunkState EXCEPT ![flow.index] = "Submitted"]
        /\ flow' = [flow EXCEPT
                      !.transactions = Append(@, flow.chunks[flow.index]),
                      !.collectedSignatures = Append(@, flow.index),
                      !.pc = "confirm"]
        /\ UNCHANGED <<walletBase58, consultMode, status, errorMessage,
                       result, reclaiming, reclaimError, reclaimSuccess,
                       reclaimSignatures, rewardState, lastFetchedWalletRef,
                       scans, nextScan, budget>>
     \/ \* rejected (wallet refusal, RPC error): nothing was submitted
        /\ chunkState' = [chunkState EXCEPT ![flow.index] = "Failed"]
        /\ ReclaimCatch

\* handleReclaim, lines 406-417: confirmTransaction of the current chunk
\* settles; after the last chunk, setReclaimSuccess and setReclaimSignatures
\* are followed, in the same synchronous run, by fetchAtaBalance's resets.
ReclaimConfirm ==
  /\ UNCHANGED notPage
  /\ flow.pc = "confirm"
  /\ \/ /\ chunkState' = [chunkState EXCEPT ![flow.index] = "Confirmed"]
        /\ IF flow.index < Len(flow.chunks)
           THEN /\ flow' = [flow EXCEPT !.pc = "send", !.index = @ + 1]
                /\ UNCHANGED <<walletBase58, consultMode, status,
                               errorMessage, result, reclaiming, reclaimError,
                               reclaimSuccess, reclaimSignatures, rewardState,
                               lastFetchedWalletRef, scans, nextScan, budget>>
           ELSE /\ FetchAtaBalanceStart(flow.wallet)
                /\ flow' = [flow EXCEPT !.pc = "refresh",
                                        !.awaits = nextScan,
                                        !.refreshes = @ + 1]
                /\ UNCHANGED <<walletBase58, consultMode, reclaiming,
                               rewardState, lastFetchedWalletRef, budget>>
     \/ /\ chunkState' = [chunkState EXCEPT ![flow.index] = "Failed"]
        /\ ReclaimCatch

\* handleReclaim, lines 417-436 and 487-490: the awaited refresh scan
\* answers; then the mint request is sent, or the flow ends
ReclaimRefreshed(sc, ans) ==
  /\ UNCHANGED notPage
  /\ sc \in scans
  /\ flow.pc \in {"refresh", "refresh_failed"}
  /\ flow.awaits = sc.id
  /\ FetchAtaBalanceSettle(sc, ans)
  /\ IF flow.pc = "refresh_failed"
     THEN /\ reclaiming' = FALSE
          /\ flow' = [flow EXCEPT !.pc = "done"]
          /\ UNCHANGED rewardState
     ELSE IF Len(flow.collectedSignatures) = 0
     THEN /\ rewardState' = Reward("error")
          /\ reclaiming' = FALSE
          /\ flow' = [flow EXCEPT !.pc = "done"]
     ELSE /\ flow' = [flow EXCEPT
                        !.pc = "mint", !.mintSent = TRUE,
                        !.mintRequest =
                          MintRequestBody(flow.wallet,
                                          flow.collectedSignatures)]
          /\ UNCHANGED <<rewardState, reclaiming>>
  /\ UNCHANGED <<walletBase58, consultMode, reclaimError, reclaimSuccess,
                 reclaimSignatures, lastFetchedWalletRef, nextScan,
                 chunkState, budget>>

\* handleReclaim, lines 438-477 and 489-490: the mint endpoint answers
ReclaimMintResponse(ans) ==
  /\ UNCHANGED notPage
  /\ flow.pc = "mint"
  /\ rewardState' =
       IF ans.ok
       THEN IF ans.status = "already_minted"
            THEN [status |-> "already", mintAddress |-> ans.mintAddress,
                  signature |-> 0]
            ELSE IF ans.mintAddress # 0 /\ ans.signature # 0
            THEN [status |-> "minted", mintAddress |-> ans.mintAddress,
                  signature |-> ans.signature]
            ELSE Reward("error")
       ELSE Reward("error")
  /\ reclaiming' = FALSE
  /\ flow' = [flow EXCEPT !.pc = "done"]
  /\ UNCHANGED <<walletBase58, consultMode, status, errorMessage, result,
                 reclaimError, reclaimSuccess, reclaimSignatures,
                 lastFetchedWalletRef, scans, nextScan, chunkState, budget>>

PageNext ==
  \/ \E w \in Wallets \cup {Null} : WalletChange(w)
  \/ \E mode \in {"wallet", "manual"} : SetConsultMode(mode)
  \/ \E a \in WalletInputs : HandleSubmit(a)
  \/ \E sc \in scans : \E ans \in ScanAnswers(sc.address) :
       ScanResponse(sc, ans)
  \/ HandleReclaim
  \/ ReclaimSend
  \/ ReclaimConfirm
  \/ \E sc \in scans : \E ans \in ScanAnswers(sc.address) :
       ReclaimRefreshed(sc, ans)
  \/ \E ans \in MintAnswers : ReclaimMintResponse(ans)

\* ===================================================== voice-token route
PREFIX == "ATA_VOICE_JOIN:"

\* a message is the sequence of its parts; the empty string has none
Messages ==
  {<<>>,
   <<PREFIX, "welcome-family", ":", "n1">>,
   <<"LOGIN:", "welcome-family", ":", "n1">>}

\* message.startsWith("ATA_VOICE_JOIN:")
StartsWithPrefix(message) == Len(message) >= 1 /\ message[1] = PREFIX

\* the bytes Buffer.from(signature, "base64") yields: how many, and for a
\* 64-byte signature who signed which message
NoSignature == [len |-> 0, by |-> Null, msg |-> <<>>]
Malformed == [len |-> 10, by |-> Null, msg |-> <<>>]
SignatureInputs ==
  {NoSignature, Malformed}
  \cup [len : {64}, by : Wallets, msg : Messages]

\* nacl.sign.detached.verify(messageBytes, signatureBytes, publicKeyBytes):
\* throws on a signature that is not 64 bytes long
NaclVerify(message, signature, wallet) ==
  IF signature.len # 64 THEN "throw"
  ELSE IF signature.by = wallet /\ signature.msg = message THEN "valid"
  ELSE "invalid"

\* payload.room?.trim() || "welcome-family"
RoomInputs == {"", "vip"}
RoomOf(room) == IF room = "" THEN "welcome-family" ELSE room

\* one token account of a wallet, as the fallback scan sees it:
\*   zero      balance 0 (uiAmount 0 or null)
\*   nometa    non-zero balance, the mint has no metadata (the reader throws)
\*   ours      non-zero balance, verified member of the reward collection
\*   unverified non-zero balance, collection set but not verified
\*   other     non-zero balance, verified member of another collection
HoldingKinds == {"zero", "nometa", "ours", "unverified", "other"}

RECURSIVE SeqsUpTo(_, _)
SeqsUpTo(S, n) ==
  IF n = 0 THEN {<<>>}
  ELSE LET shorter == SeqsUpTo(S, n - 1)
       IN  shorter \cup {Append(q, x) : q \in shorter, x \in S}

RECURSIVE ScanHoldings(_, _)
\* walletOwnsNft, lines 77-98: the loop over tokenAccounts.value
ScanHoldings(accounts, i) ==
  IF i > Len(accounts) THEN FALSE
  ELSE IF accounts[i] = "zero" THEN ScanHoldings(accounts, i + 1)
  ELSE IF accounts[i] = "nometa" THEN ScanHoldings(accounts, i + 1)
  ELSE IF accounts[i] = "ours" THEN TRUE
  ELSE ScanHoldings(accounts, i + 1)

\* the collection field of the metadata of a holding's mint
CollectionOf(kind) ==
  IF kind = "ours" THEN [verified |-> TRUE, address |-> "reward"]
  ELSE IF kind = "unverified" THEN [verified |-> FALSE, address |-> "reward"]
  ELSE [verified |-> TRUE, address |-> "elsewhere"]

\* JavaScript values: a string, or a PublicKey object
StringValue(text) == [type |-> "string", value |-> text]
PublicKeyValue(base58) == [type |-> "PublicKey", value |-> base58]

\* x === y: strings are equal by content; a PublicKey object is equal
\* neither to a string nor to another PublicKey object
StrictEquals(x, y) ==
  x.type = "string" /\ y.type = "string" /\ x.value = y.value

\* route.ts line 266: metadata.collection?.verified &&
\* metadata.collection.key === collectionMint.toBase58(), where
\* Metadata.fromAccountAddress yields collection.key as a PublicKey
MetadataAccountAccepts(kind) ==
  /\ CollectionOf(kind).verified
  /\ StrictEquals(PublicKeyValue(CollectionOf(kind).address),
                  StringValue("reward"))

\* part_005 line 91: metadata.collection?.verified &&
\* metadata.collection.address.toBase58() === collectionMint.toBase58()
FindByMintAccepts(kind) ==
  /\ CollectionOf(kind).verified
  /\ StrictEquals(StringValue(CollectionOf(kind).address),
                  StringValue("reward"))

RECURSIVE ScanHoldingsMetadataAccount(_, _)
\* route.ts walletOwnsNft, lines 246-274: the loop over tokenAccounts.value
\* of the reader built on Metadata.fromAccountAddress
ScanHoldingsMetadataAccount(accounts, i) ==
  IF i > Len(accounts) THEN FALSE
  ELSE IF accounts[i] = "zero"
  THEN ScanHoldingsMetadataAccount(accounts, i + 1)
  ELSE IF accounts[i] = "nometa"
  THEN ScanHoldingsMetadataAccount(accounts, i + 1)
  ELSE IF MetadataAccountAccepts(accounts[i]) THEN TRUE
  ELSE ScanHoldingsMetadataAccount(accounts, i + 1)

\* select status where user_wallet = w and status = 'success' limit 1
StoreHasSuccess(w) ==
  \E i \in 1..Len(rows) :
    rows[i].user_wallet = w /\ rows[i].status = "success"

\* mutant: the prefix test is dropped
PrefixAccepted_Any(message) == TRUE

\* if (!message.startsWith("ATA_VOICE_JOIN:")) reject
PrefixAccepted(message) == StartsWithPrefix(message)

IdleAuth ==
  [pc |-> "idle", walletAddress |-> "", signature |-> NoSignature,
   message |-> <<>>, room |-> "", steps |-> <<>>, http |-> 0, reason |-> "",
   token |-> [identity |-> Null, room |-> Null, ttl |-> 0]]

AuthBodies ==
  [json : {TRUE}, walletAddress : WalletInputs, signature : SignatureInputs,
   message : Messages, room : RoomInputs]
  \cup {[json |-> FALSE, walletAddress |-> "", signature |-> NoSignature,
         message |-> <<>>, room |-> ""]}

\* the nft_mints table as a voice-token request may find it
StoreSnapshots ==
  {<<>>,
   <<[PendingRow("w1", "s1") EXCEPT !.status = "success",
                                     !.nft_mint_address = 1,
                                     !.transaction_signature = 1]>>,
   <<PendingRow("w1", "s1")>>}

AuthInit ==
  /\ auth = IdleAuth
  /\ holdings \in SeqsUpTo(HoldingKinds, MaxHoldings)
  /\ config \in [nft : {TRUE}, collection : BOOLEAN, admin : {TRUE},
                  supabase : BOOLEAN, livekit : BOOLEAN]
  /\ rows \in StoreSnapshots
  /\ issued = <<>>
  /\ req = [r \in Req |-> IdleReq]
  /\ writes = {}

AuthRespond(http, reason) ==
  [auth EXCEPT !.pc = "done", !.http = http, !.reason = reason]

\* POST, lines 106-160: the checks before the message is looked at
AuthReceive(body) ==
  /\ auth.pc = "idle"
  /\ LET in0 == [auth EXCEPT !.walletAddress = body.walletAddress,
                              !.signature = body.signature,
                              !.message = body.message,
                              !.room = RoomOf(body.room)]
         Reject(http, reason) ==
           [in0 EXCEPT !.pc = "done", !.http = http, !.reason = reason]
     IN  auth' =
           IF ~config.livekit THEN Reject(500, "livekit_not_configured")
           ELSE IF ~body.json THEN Reject(400, "invalid_json")
           ELSE IF \/ body.walletAddress = ""
                   \/ body.signature.len = 0
                   \/ body.message = <<>>
           THEN Reject(400, "missing_parameters")
           ELSE IF ~IsPublicKey(body.walletAddress)
           THEN Reject(400, "invalid_wallet")
           ELSE [in0 EXCEPT !.pc = "prefix"]
  /\ UNCHANGED <<holdings, rows>>
  /\ UNCHANGED notAuth

\* POST, lines 162-172
AuthCheckPrefix ==
  /\ auth.pc = "prefix"
  /\ LET a == [auth EXCEPT !.steps = Append(@, "prefix")]
     IN  auth' = IF PrefixAccepted(auth.message)
                 THEN [a EXCEPT !.pc = "verify"]
                 ELSE [a EXCEPT !.pc = "done", !.http = 400,
                                !.reason = "invalid_message"]
  /\ UNCHANGED <<holdings, rows>>
  /\ UNCHANGED notAuth

\* POST, lines 174-200
AuthVerifySignature ==
  /\ auth.pc = "verify"
  /\ LET a == [auth EXCEPT !.steps = Append(@, "signature")]
         isValid == NaclVerify(auth.message, auth.signature,
                               auth.walletAddress)
     IN  auth' =
           IF isValid = "throw"
           THEN [a EXCEPT !.pc = "done", !.http = 500,
                          !.reason = "signature_error"]
           ELSE IF isValid = "invalid"
           THEN [a EXCEPT !.pc = "done", !.http = 401,
                          !.reason = "invalid_signature"]
           ELSE [a EXCEPT !.pc = "store"]
  /\ UNCHANGED <<holdings, rows>>
  /\ UNCHANGED notAuth

MissingNft(a) ==
  [a EXCEPT !.pc = "done", !.http = 403, !.reason = "missing_nft"]

\* walletOwnsNft, lines 37-67: the store check, and POST lines 202-212.
\* Without store configuration, and on a query error, the answer is false.
AuthStoreCheck ==
  /\ auth.pc = "store"
  /\ LET a == [auth EXCEPT !.steps = Append(@, "store")]
     IN  IF ~config.supabase THEN auth' = MissingNft(a)
         ELSE \/ auth' = MissingNft(a)           \* the query errors
              \/ auth' =
                   IF StoreHasSuccess(auth.walletAddress)
                   THEN [a EXCEPT !.pc = "token"]
                   ELSE IF ~config.collection THEN MissingNft(a)
                   ELSE [a EXCEPT !.pc = "chain"]
  /\ UNCHANGED <<holdings, rows>>
  /\ UNCHANGED notAuth

\* walletOwnsNft, lines 69-103: the on-chain fallback, and POST lines 202-212
AuthChainCheck ==
  /\ auth.pc = "chain"
  /\ LET a == [auth EXCEPT !.steps = Append(@, "chain")]
     IN  \/ auth' = MissingNft(a)                \* the RPC call throws
         \/ auth' = IF ScanHoldings(holdings, 1)
                    THEN [a EXCEPT !.pc = "token"]
                    ELSE MissingNft(a)
  /\ UNCHANGED <<holdings, rows>>
  /\ UNCHANGED notAuth

\* POST, lines 214-249: the access token for the room, valid 10 minutes
AuthIssueToken ==
  /\ auth.pc = "token"
  /\ LET a == [auth EXCEPT !.steps = Append(@, "token")]
     IN  \/ auth' = [a EXCEPT !.pc = "done", !.http = 200, !.reason = "ok",
                              !.token = [identity |-> auth.walletAddress,
                                         room |-> auth.room,
                                         ttl |-> 60 * 10]]
         \/ auth' = [a EXCEPT !.pc = "done", !.http = 500,
                              !.reason = "livekit_error"]
  /\ UNCHANGED <<holdings, rows>>
  /\ UNCHANGED notAuth

AuthNext ==
  \/ \E body \in AuthBodies : AuthReceive(body)
  \/ AuthCheckPrefix
  \/ AuthVerifySignature
  \/ AuthStoreCheck
  \/ AuthChainCheck
  \/ AuthIssueToken

\* ===================================================== ata-balance route
Mint(k) == <<"mint", k>>
Mints == {Mint(k) : k \in 1..MaxCount}
\* the mints of the entries of a short RPC answer
FewMints == {Mint(1), Mint(2)}
NoMint == <<"none", 0>>
\* <<"bad", 0>> does not parse as a public key
MintInputs == FewMints \cup {<<"bad", 0>>}

\* getAssociatedTokenAddress(new PublicKey(mint), owner, true): the address
\* derived from the pair, or a throw when the mint is not a public key
GetAssociatedTokenAddress(mint, owner) ==
  IF mint \in Mints THEN <<"ata", mint, owner>> ELSE <<"throw", mint, owner>>

Throws(address) == address[1] = "throw"

\* the addresses an account owned by the wallet may have
AddressesOf(owner) ==
  {GetAssociatedTokenAddress(m, owner) : m \in FewMints}
  \cup {<<"aux", NoMint, owner>>}

Unparsed(pubkey) ==
  [pubkey |-> pubkey, parsed |-> FALSE, mint |-> NoMint, amount |-> "",
   state |-> ""]

\* one entry of getParsedTokenAccountsByOwner(owner).value
RpcEntries(owner) ==
  [pubkey : AddressesOf(owner), parsed : {TRUE}, mint : MintInputs,
   amount : {"0", "5"}, state : {"initialized", "frozen"}]
  \cup {Unparsed(k) : k \in AddressesOf(owner)}

\* a wallet with n associated accounts, one per mint, in good state: the
\* first `funded` of them hold tokens, the others are empty
ManyAccounts(owner, n, funded) ==
  [i \in 1..n |->
     [pubkey |-> GetAssociatedTokenAddress(Mint(i), owner), parsed |-> TRUE,
      mint |-> Mint(i), amount |-> IF i <= funded THEN "5" ELSE "0",
      state |-> "initialized"]]

\* the chain holds one account per address
RpcAnswers(owner) ==
  {a \in SeqsUpTo(RpcEntries(owner), MaxAccounts) :
     \A i, j \in 1..Len(a) : a[i].pubkey = a[j].pubkey => i = j}
  \cup {ManyAccounts(owner, n, funded) : n \in 0..MaxCount, funded \in {0, 1}}

\* mutant: the derived address is not compared with the account's address
IsCanonical_NotCompared(entry, owner) ==
  /\ entry.parsed
  /\ ~Throws(GetAssociatedTokenAddress(entry.mint, owner))

\* lines 97-116: the entry survives the map
IsCanonical(entry, owner) ==
  /\ entry.parsed
  /\ ~Throws(GetAssociatedTokenAddress(entry.mint, owner))
  /\ GetAssociatedTokenAddress(entry.mint, owner) = entry.pubkey

\* lines 118-127: the object built for a surviving entry
AtaEntry(entry) ==
  [ataAddress |-> entry.pubkey, mint |-> entry.mint, amount |-> entry.amount,
   state |-> entry.state, isFrozen |-> entry.state = "frozen"]

RECURSIVE AssociatedAccounts(_, _, _)
\* lines 97-135: map every entry, keep the non-null ones, in RPC order
AssociatedAccounts(value, owner, i) ==
  IF i > Len(value) THEN <<>>
  ELSE IF IsCanonical(value[i], owner)
  THEN <<AtaEntry(value[i])>> \o AssociatedAccounts(value, owner, i + 1)
  ELSE AssociatedAccounts(value, owner, i + 1)

\* mutant: a frozen account counts as reclaimable
IsReclaimable_FrozenToo(account) == account.amount = "0"

\* line 139: account.amount === "0" && !account.isFrozen
IsReclaimable(account) == account.amount = "0" /\ ~account.isFrozen

RECURSIVE EmptyATAs(_, _)
\* lines 138-140: the filter over associatedAccounts
EmptyATAs(accounts, i) ==
  IF i > Len(accounts) THEN <<>>
  ELSE IF IsReclaimable(accounts[i])
  THEN <<accounts[i]>> \o EmptyATAs(accounts, i + 1)
  ELSE EmptyATAs(accounts, i + 1)

\* ---- JavaScript numbers: IEEE 754 doubles, value mant * 2^exp with mant
\* below 2^53. A mantissa is a natural number written as the sequence of its
\* base-LimbBase digits, least significant first, without leading zeros.
LimbBase == 10000

RECURSIVE BigTrim(_)
BigTrim(a) ==
  IF a # <<>> /\ a[Len(a)] = 0 THEN BigTrim(SubSeq(a, 1, Len(a) - 1)) ELSE a

RECURSIVE BigFromNat(_)
BigFromNat(n) ==
  IF n = 0 THEN <<>> ELSE <<n % LimbBase>> \o BigFromNat(n \div LimbBase)

RECURSIVE BigTimesFrom(_, _, _, _)
BigTimesFrom(a, k, i, carry) ==
  IF i > Len(a)
  THEN BigFromNat(carry)
  ELSE LET t == a[i] * k + carry
       IN  <<t % LimbBase>> \o BigTimesFrom(a, k, i + 1, t \div LimbBase)

\* a * k for a natural k below 200000
BigTimes(a, k) == BigTrim(BigTimesFrom(a, k, 1, 0))

RECURSIVE BigPlusFrom(_, _, _, _)
BigPlusFrom(a, b, i, carry) ==
  IF i > Len(a) /\ i > Len(b)
  THEN BigFromNat(carry)
  ELSE LET t == (IF i <= Len(a) THEN a[i] ELSE 0)
                + (IF i <= Len(b) THEN b[i] ELSE 0) + carry
       IN  <<t % LimbBase>> \o BigPlusFrom(a, b, i + 1, t \div LimbBase)

BigPlus(a, b) == BigPlusFrom(a, b, 1, 0)

BigOdd(a) == a # <<>> /\ a[1] % 2 = 1

\* floor(a / 2): the parity of the digit above decides what is carried down
BigHalf(a) ==
  BigTrim([i \in 1..Len(a) |->
             (a[i] + (IF i < Len(a) /\ a[i + 1] % 2 = 1 THEN LimbBase ELSE 0))
               \div 2])

BigLess(a, b) ==
  IF Len(a) # Len(b) THEN Len(a) < Len(b)
  ELSE \E i \in 1..Len(a) :
         /\ a[i] < b[i]
         /\ \A j \in (i + 1)..Len(a) : a[j] = b[j]

\* 2^53 = 9007199254740992
TwoTo53 == <<992, 5474, 1992, 9007>>

Zero == [mant |-> <<>>, exp |-> 0]

RECURSIVE RoundToDouble(_, _, _, _)
\* the double nearest to p * 2^e, ties to even: bits are shifted out of p
\* until it is below 2^53; guard is the last bit shifted out, sticky tells
\* whether a one was shifted out before it
RoundToDouble(p, e, guard, sticky) ==
  IF ~BigLess(p, TwoTo53)
  THEN RoundToDouble(BigHalf(p), e + 1, BigOdd(p), sticky \/ guard)
  ELSE IF guard /\ (sticky \/ BigOdd(p))
  THEN LET q == BigPlus(p, <<1>>)
       IN  IF q = TwoTo53 THEN [mant |-> BigHalf(q), exp |-> e + 1]
           ELSE [mant |-> q, exp |-> e]
  ELSE [mant |-> p, exp |-> e]

\* n * x for a count n and a double x: one multiplication, rounded once
NumberTimes(n, x) ==
  IF n = 0 THEN Zero
  ELSE RoundToDouble(BigTimes(x.mant, n), x.exp, FALSE, FALSE)

\* const RENT_EXEMPT_AMOUNT = 0.00203928: the double the literal denotes,
\* 4702259531829302 * 2^-61
RENT_EXEMPT_AMOUNT == [mant |-> <<9302, 3182, 2595, 4702>>, exp |-> -61]

NoResponse ==
  [walletAddress |-> Null, totalATAs |-> 0, emptyATAs |-> 0,
   reclaimableSOL |-> Zero, rentPerATA |-> Zero,
   accounts |-> <<>>, allAccounts |-> <<>>]

IdleScan ==
  [pc |-> "idle", walletAddress |-> "", rpcCalls |-> 0, rpc |-> "none",
   value |-> <<>>,
   http |-> 0, reason |-> "", response |-> NoResponse]

ScanBodies ==
  [json : {TRUE}, walletAddress : WalletInputs]
  \cup {[json |-> FALSE, walletAddress |-> ""]}

\* POST, lines 20-71
ScanReceive(body) ==
  /\ scan.pc = "idle"
  /\ LET in0 == [scan EXCEPT !.walletAddress = body.walletAddress]
         Reject(http, reason) ==
           [in0 EXCEPT !.pc = "done", !.http = http, !.reason = reason]
     IN  scan' =
           IF ~body.json THEN Reject(400, "invalid_json")
           ELSE IF body.walletAddress = "" THEN Reject(400, "missing_wallet")
           ELSE IF ~IsPublicKey(body.walletAddress)
           THEN Reject(400, "invalid_wallet")
           ELSE [in0 EXCEPT !.pc = "rpc"]
  /\ UNCHANGED notScan

\* POST, lines 73-158: the RPC answers and the response is built
ScanRespond ==
  /\ scan.pc = "rpc"
  /\ \E value \in RpcAnswers(scan.walletAddress) :
     LET associatedAccounts == AssociatedAccounts(value, scan.walletAddress, 1)
         emptyATAs == EmptyATAs(associatedAccounts, 1)
     IN  scan' = [scan EXCEPT
                    !.pc = "done", !.rpcCalls = @ + 1, !.rpc = "answered",
                    !.value = value,
                    !.http = 200, !.reason = "ok",
                    !.response =
                      [walletAddress |-> scan.walletAddress,
                       totalATAs |-> Len(associatedAccounts),
                       emptyATAs |-> Len(emptyATAs),
                       reclaimableSOL |->
                         NumberTimes(Len(emptyATAs), RENT_EXEMPT_AMOUNT),
                       rentPerATA |-> RENT_EXEMPT_AMOUNT,
                       accounts |-> emptyATAs,
                       allAccounts |-> associatedAccounts]]
  /\ UNCHANGED notScan

\* POST, lines 159-170: the RPC call throws
ScanRpcError ==
  /\ scan.pc = "rpc"
  /\ scan' = [scan EXCEPT !.pc = "done", !.rpcCalls = @ + 1,
                          !.rpc = "error", !.http = 502, !.reason = "rpc_error"]
  /\ UNCHANGED notScan

ScanNext ==
  \/ \E body \in ScanBodies : ScanReceive(body)
  \/ ScanRespond
  \/ ScanRpcError

vars == <<mintVars, pageVars, authVars, scanVars>>

\* the server with every environment variable set
Configured ==
  [nft |-> TRUE, collection |-> TRUE, admin |-> TRUE, supabase |-> TRUE,
   livekit |-> TRUE]

MintIdle ==
  /\ config = Configured
  /\ rows = <<>>
  /\ issued = <<>>
  /\ req = [r \in Req |-> IdleReq]
  /\ writes = {}

AuthIdle == auth = IdleAuth /\ holdings = <<>>

ScanIdle == scan = IdleScan

InitMint == MintInit /\ PageInit /\ AuthIdle /\ ScanIdle

SpecMint == InitMint /\ [][MintNext]_vars

\* the store and the chain as two overlapping requests for w1 can leave
\* them: the first inserted row 1, the second inserted row 2, the first
\* minted token 1 and recorded it; the second is unfinished (pending),
\* or failed and recorded that
LaterStores ==
  {<<[PendingRow("w1", "s1") EXCEPT !.status = "success",
                                     !.nft_mint_address = 1,
                                     !.transaction_signature = 1],
     [PendingRow("w1", "s1") EXCEPT !.status = st,
                                     !.error_message =
                                       IF st = "failed" THEN "error"
                                       ELSE Null]>> :
     st \in {"pending", "failed"}}

\* mint requests that arrive after those two
MintInitLater ==
  /\ config = Configured
  /\ rows \in LaterStores
  /\ issued = <<[mint |-> 1, owner |-> "w1", by |-> 0]>>
  /\ req = [r \in Req |-> IdleReq]
  /\ writes = {}

InitMintLater == MintInitLater /\ PageInit /\ AuthIdle /\ ScanIdle

SpecMintLater == InitMintLater /\ [][MintNext]_vars

InitPage == MintIdle /\ PageInit /\ AuthIdle /\ ScanIdle

SpecReclaim == InitPage /\ [][PageNext]_vars

\* every call handleReclaim awaits (sendTransaction, confirmTransaction, the
\* scan request of fetchAtaBalance, the mint request) eventually resolves or
\* rejects
CallsSettle ==
  /\ WF_vars(ReclaimSend)
  /\ WF_vars(ReclaimConfirm)
  /\ WF_vars(\E sc \in scans : \E ans \in ScanAnswers(sc.address) :
               ReclaimRefreshed(sc, ans))
  /\ WF_vars(\E ans \in MintAnswers : ReclaimMintResponse(ans))

SpecReclaimLive == SpecReclaim /\ CallsSettle

InitAuth == AuthInit /\ PageInit /\ ScanIdle

SpecAuth == InitAuth /\ [][AuthNext]_vars

InitScan == MintIdle /\ PageInit /\ AuthIdle /\ ScanIdle

SpecScan == InitScan /\ [][ScanNext]_vars

\* ================================================================ claims
SuccessRowsOf(w) == {i \in RowIdsOf(w) : rows[i].status = "success"}

WritesOf(r) == {x \in writes : x[1] = r}

TokensBy(r) == {i \in 1..Len(issued) : issued[i].by = r}

\* C1 (as claimed): in every reachable state of the store, whatever the
\* interleaving of the mint requests, each wallet has at most one row with
\* status = success.
C1_AtMostOneSuccessPerWallet ==
  \A w \in Wallets : Cardinality(SuccessRowsOf(w)) <= 1

\* r2 was received after r1 had answered, for the same wallet, with another
\* reclaim signature that is valid for that wallet, and both got a success
\* response; no other request for the wallet has arrived.
SequentialPair(r1, r2) ==
  /\ r1 # r2
  /\ req[r1].pc = "done" /\ req[r2].pc = "done"
  /\ r1 \in req[r2].after
  /\ req[r1].wallet = req[r2].wallet
  /\ req[r1].sig # req[r2].sig
  /\ ChainFeePayer(req[r1].sig) = req[r1].wallet
  /\ ChainFeePayer(req[r2].sig) = req[r2].wallet
  /\ req[r1].reason = "minted"
  /\ req[r2].http = 200
  /\ \A q \in Req \ {r1, r2} :
       req[q].pc = "idle" \/ req[q].wallet # req[r1].wallet

\* C2 (as claimed): two calls one after the other, same wallet, two different
\* valid reclaim signatures: the first answers minted, the second answers
\* already_minted with the first call's mint address.
C2_SecondCallAlreadyMinted ==
  \A r1, r2 \in Req :
    SequentialPair(r1, r2) =>
      /\ req[r2].reason = "already_minted"
      /\ req[r2].mintAddress = req[r1].mintAddress

\* a request that is past the reclaim verification
PastVerification(r) ==
  \/ req[r].pc \in {"lookup", "insert", "issue", "record_success",
                    "record_failed"}
  \/ req[r].reason \in {"minted", "already_minted", "mint_failed"}
  \/ WritesOf(r) # {}
  \/ TokensBy(r) # {}

\* C3: the guard is consulted, a row is written and a token is issued only
\* for a request whose reclaim signature is a confirmed transaction paid by
\* the request's wallet; a request whose signature is absent, unconfirmed or
\* paid by another account fails, writes no row and issues no token.
C3_IssueOnlyAfterReclaimVerified ==
  /\ \A r \in Req :
       PastVerification(r) => ChainFeePayer(req[r].sig) = req[r].wallet
  /\ \A i \in 1..Len(issued) : issued[i].owner = req[issued[i].by].wallet
  /\ \A r \in Req :
       (req[r].pc = "done" /\ ChainFeePayer(req[r].sig) # req[r].wallet) =>
         /\ req[r].http # 200
         /\ WritesOf(r) = {}
         /\ TokensBy(r) = {}

\* C3 witness: one request was refused because its transaction is paid by
\* another account, one because its transaction is absent, and a token was
\* issued for a verified request.
C3_Witness ==
  \E r, q \in Req :
    /\ req[r].reason = "invalid_reclaim_signature"
    /\ ChainFeePayer(req[r].sig) \notin {Null, req[r].wallet}
    /\ req[q].reason = "minted"
    /\ TokensBy(q) # {}

InState(st) == {i \in 1..Len(chunkState) : chunkState[i] = st}

\* C4: within one reclaim flow at most one chunk transaction is submitted
\* and not yet confirmed or failed, and chunk N+1 is touched (submitted or
\* attempted) only once chunk N is confirmed.
C4_ChunksStrictlySequential ==
  /\ Cardinality(InState("Submitted")) <= 1
  /\ \A i \in 1..Len(chunkState) :
       (i > 1 /\ chunkState[i] # "Pending") => chunkState[i - 1] = "Confirmed"

\* C4 witness: three chunks, the first confirmed, the second in flight, the
\* third not yet sent.
C4_Witness ==
  /\ Len(chunkState) = 3
  /\ chunkState[1] = "Confirmed"
  /\ chunkState[2] = "Submitted"
  /\ chunkState[3] = "Pending"

\* no user event (wallet change, mode switch, submit, click) since the
\* current reclaim flow started
Undisturbed == flow.since = budget

\* C5 (as claimed): when a chunk's submission or confirmation fails, the flow
\* ends with a failure indicator and with the signatures collected so far in
\* state, so that the number of chunks that went through is visible
\* (reclaimSignatures holds as many entries as chunks were confirmed, or as
\* signatures were collected).
C5_PartialFailureVisible ==
  [][(flow.pc # "done" /\ flow'.pc = "done" /\ flow'.failed
      /\ Undisturbed') =>
       /\ reclaimError' # "" \/ rewardState'.status = "error"
       /\ \/ Len(reclaimSignatures') = Cardinality(InState("Confirmed")')
          \/ Len(reclaimSignatures') = Len(flow'.collectedSignatures)]_vars

\* ------------------------------------------------------------ voice token
AuthDone == auth.pc = "done"

Ran(step) == \E i \in 1..Len(auth.steps) : auth.steps[i] = step

TokenIssued == auth.token.identity # Null

SignatureVerifies ==
  NaclVerify(auth.message, auth.signature, auth.walletAddress) = "valid"

OwnsReward ==
  StoreHasSuccess(auth.walletAddress) \/ ScanHoldings(holdings, 1)

\* the orders in which the steps of one request can have run so far
StepOrders ==
  {<<>>,
   <<"prefix">>,
   <<"prefix", "signature">>,
   <<"prefix", "signature", "store">>,
   <<"prefix", "signature", "store", "chain">>,
   <<"prefix", "signature", "store", "token">>,
   <<"prefix", "signature", "store", "chain", "token">>}

\* C6: the authorizer runs its steps in the order prefix check, signature
\* verification, ownership check (store, then chain), token issuance; a step
\* runs only when every earlier step passed, a failing step ends the request
\* with its rejection, and a token exists only when all of them passed.
C6_StepsInOrder ==
  /\ auth.steps \in StepOrders
  /\ Ran("signature") => StartsWithPrefix(auth.message)
  /\ Ran("store") => SignatureVerifies
  /\ Ran("token") => OwnsReward
  /\ TokenIssued =>
       /\ Ran("token") /\ auth.reason = "ok"
       /\ StartsWithPrefix(auth.message) /\ SignatureVerifies /\ OwnsReward
  /\ AuthDone /\ auth.reason = "invalid_message" =>
       auth.steps = <<"prefix">> /\ ~TokenIssued
  /\ AuthDone /\ auth.reason \in {"invalid_signature", "signature_error"} =>
       auth.steps = <<"prefix", "signature">> /\ ~TokenIssued
  /\ AuthDone /\ auth.reason = "missing_nft" =>
       ~Ran("token") /\ Ran("store") /\ ~TokenIssued

C6_Witness ==
  /\ AuthDone /\ TokenIssued
  /\ auth.steps = <<"prefix", "signature", "store", "chain", "token">>

\* C7 as stated: a request whose signature verifies for the wallet but whose
\* message does not start with ATA_VOICE_JOIN: is answered invalid_message
\* (400).
C7_ValidSignatureWrongPrefix ==
  AuthDone /\ SignatureVerifies /\ ~StartsWithPrefix(auth.message)
    => auth.http = 400 /\ auth.reason = "invalid_message"

\* what the checks of lines 106-160 let through
PassedInputChecks ==
  /\ config.livekit
  /\ IsPublicKey(auth.walletAddress)
  /\ auth.signature.len # 0
  /\ auth.message # <<>>

\* C7 amended: on a server with LiveKit configured, a request with a valid
\* wallet address, a signature and a non-empty message that does not start
\* with ATA_VOICE_JOIN: is answered invalid_message (400) after the prefix
\* check alone, whatever the signature is.
C7_WrongPrefixBeforeSignature ==
  AuthDone /\ PassedInputChecks /\ ~StartsWithPrefix(auth.message)
    => /\ auth.http = 400 /\ auth.reason = "invalid_message"
       /\ auth.steps = <<"prefix">>

C7_Witness ==
  /\ AuthDone /\ PassedInputChecks /\ ~StartsWithPrefix(auth.message)
  /\ SignatureVerifies
  /\ auth.reason = "invalid_message"

\* C8: a signature that reaches verification and does not verify, because it
\* belongs to another wallet or message or because its bytes are malformed,
\* is answered invalid_signature.
C8_InvalidSignatureBothCases ==
  AuthDone /\ Ran("signature") /\ ~SignatureVerifies
    => auth.reason = "invalid_signature" /\ auth.http = 401

\* C9: when the store check ran and did not let the request through, on a
\* server that knows the reward collection, the on-chain check ran as well,
\* so missing_nft is answered only when neither check passes.
C9_FallbackWheneverStoreFails ==
  AuthDone /\ Ran("store") /\ ~Ran("token") /\ config.collection
    => Ran("chain")

\* ------------------------------------------------------------ ata balance
Listed(accounts) == {accounts[i] : i \in 1..Len(accounts)}

\* positions of the RPC answer whose address is the derivation of their mint
CanonicalPositions ==
  {i \in 1..Len(scan.value) :
     /\ scan.value[i].parsed
     /\ scan.value[i].mint \in Mints
     /\ scan.value[i].pubkey = <<"ata", scan.value[i].mint, scan.walletAddress>>}

\* C10: every account of a successful scan response, in accounts and in
\* allAccounts, has the address derived from its mint and the queried wallet;
\* an RPC entry whose address differs from the derivation, or whose derivation
\* throws, is neither listed nor counted.
C10_OnlyCanonicalAccounts ==
  scan.reason = "ok" =>
    /\ \A a \in Listed(scan.response.accounts)
               \cup Listed(scan.response.allAccounts) :
         /\ a.mint \in Mints
         /\ a.ataAddress = <<"ata", a.mint, scan.walletAddress>>
    /\ \A i \in 1..Len(scan.value) :
         i \notin CanonicalPositions =>
           \A a \in Listed(scan.response.allAccounts) :
             a.ataAddress # scan.value[i].pubkey
    /\ scan.response.totalATAs = Cardinality(CanonicalPositions)
    /\ scan.response.emptyATAs = Len(scan.response.accounts)
    /\ Listed(scan.response.accounts) \subseteq
         Listed(scan.response.allAccounts)

C10_Witness ==
  /\ scan.reason = "ok"
  /\ Len(scan.value) = 2
  /\ Cardinality(CanonicalPositions) = 1
  /\ \E i \in 1..2 :
       /\ scan.value[i].parsed
       /\ scan.value[i].mint \in Mints
       /\ i \notin CanonicalPositions
  /\ Len(scan.response.accounts) = 1

\* positions of the canonical accounts that are empty and not frozen
EmptyPositions ==
  {i \in CanonicalPositions :
     scan.value[i].amount = "0" /\ scan.value[i].state # "frozen"}

\* the place of position i among the empty positions, in RPC order
Rank(i) == Cardinality({j \in EmptyPositions : j <= i})

\* C11: in a successful scan response totalATAs is the number of canonical
\* accounts, accounts lists exactly the canonical accounts with amount "0"
\* that are not frozen, in RPC order, emptyATAs is its length and at most
\* totalATAs; a wallet without token accounts gets 0, 0 and reclaimableSOL 0.
C11_CountsAndEmptyList ==
  scan.reason = "ok" =>
    /\ scan.response.totalATAs = Cardinality(CanonicalPositions)
    /\ Len(scan.response.accounts) = Cardinality(EmptyPositions)
    /\ \A i \in EmptyPositions :
         /\ scan.response.accounts[Rank(i)].ataAddress = scan.value[i].pubkey
         /\ scan.response.accounts[Rank(i)].mint = scan.value[i].mint
    /\ scan.response.emptyATAs = Len(scan.response.accounts)
    /\ scan.response.emptyATAs <= scan.response.totalATAs
    /\ Len(scan.value) = 0 =>
         /\ scan.response.totalATAs = 0
         /\ scan.response.emptyATAs = 0
         /\ scan.response.reclaimableSOL = Zero

C11_Witness ==
  /\ scan.reason = "ok"
  /\ Len(scan.value) = 4
  /\ scan.response.totalATAs = 4
  /\ scan.response.emptyATAs = 3

\* the literal 0.00203928 is 203928 hundred-millionths
RentHundredMillionths == 203928

RECURSIVE BigDoubled(_, _)
\* a * 2^k, fifteen doublings at a time
BigDoubled(a, k) ==
  IF k >= 15 THEN BigDoubled(BigTimes(a, 2 ^ 15), k - 15)
  ELSE BigTimes(a, 2 ^ k)

BigLeq(a, b) == ~BigLess(b, a)

\* d is the double nearest to num / 10^8, the one a decimal with those
\* digits is read as and printed from: |d - num / 10^8| is at most half a
\* unit in the last place of d (both sides times 2^(1 - d.exp) * 10^8)
IsNearestDouble(d, num) ==
  IF d = Zero THEN num = <<>>
  ELSE LET scaled == BigTimes(BigTimes(BigTimes(d.mant, 2), 10000), 10000)
           exact == BigDoubled(num, 1 - d.exp)
           half == <<0, 0, 1>>
       IN  /\ BigLeq(scaled, BigPlus(exact, half))
           /\ BigLeq(exact, BigPlus(scaled, half))

\* C12: reclaimableSOL is the number emptyATAs * 0.00203928, for every count
\* of canonical empty accounts.
C12_ReclaimableExact ==
  scan.reason = "ok" =>
    IsNearestDouble(scan.response.reclaimableSOL,
                    BigTimes(BigFromNat(RentHundredMillionths),
                             scan.response.emptyATAs))

\* C13: a wallet address that is no chain address is answered 400
\* invalid_wallet and the RPC is not called; an RPC call that fails is answered
\* 502 rpc_error; neither answer is given in the other's case.
C13_InvalidWalletVersusRpcError ==
  scan.pc = "done" =>
    /\ scan.walletAddress # "" /\ scan.walletAddress \notin Wallets =>
         /\ scan.http = 400 /\ scan.reason = "invalid_wallet"
         /\ scan.rpcCalls = 0 /\ scan.rpc = "none"
    /\ scan.rpc = "error" => scan.http = 502 /\ scan.reason = "rpc_error"
    /\ scan.reason = "invalid_wallet" =>
         scan.rpc = "none" /\ scan.walletAddress \notin Wallets
    /\ scan.reason = "rpc_error" =>
         scan.rpc = "error" /\ scan.walletAddress \in Wallets

C13_Witness ==
  /\ scan.pc = "done"
  /\ scan.walletAddress = "not-a-key"
  /\ scan.reason = "invalid_wallet"

\* ------------------------------------------------------------ reclaim flow
RECURSIVE Flatten(_)
Flatten(ss) == IF ss = <<>> THEN <<>> ELSE Head(ss) \o Flatten(Tail(ss))

AllConfirmed ==
  /\ flow.pc \in {"refresh", "mint", "done"}
  /\ ~flow.failed

\* the places of account a in the transactions submitted so far
PlacesOf(a) ==
  {<<i, j>> \in (1..Len(flow.transactions)) \X (1..RECLAIM_CHUNK_SIZE) :
     j <= Len(flow.transactions[i]) /\ flow.transactions[i][j] = a}

\* C14: the chunks of a reclaim flow, put end to end, are the scanned accounts
\* in their order; every chunk but the last has 6 accounts, the last has 1 to
\* 6 (13 accounts give 6, 6, 1); the k-th submitted transaction closes the
\* accounts of the k-th chunk, and once all chunks are confirmed every account
\* is in exactly one submitted transaction.
C14_ChunksPartitionAccounts ==
  flow.pc # "idle" =>
    /\ Flatten(flow.chunks) = flow.accounts
    /\ \A i \in 1..Len(flow.chunks) :
         /\ Len(flow.chunks[i]) \in 1..RECLAIM_CHUNK_SIZE
         /\ i < Len(flow.chunks) => Len(flow.chunks[i]) = RECLAIM_CHUNK_SIZE
    /\ Len(flow.accounts) = 13 =>
         [i \in 1..Len(flow.chunks) |-> Len(flow.chunks[i])] = <<6, 6, 1>>
    /\ Len(flow.transactions) <= Len(flow.chunks)
    /\ \A k \in 1..Len(flow.transactions) :
         flow.transactions[k] = flow.chunks[k]
    /\ AllConfirmed =>
         /\ Len(flow.transactions) = Len(flow.chunks)
         /\ \A n \in 1..Len(flow.accounts) :
              Cardinality(PlacesOf(flow.accounts[n])) = 1

C14_Witness ==
  /\ AllConfirmed
  /\ Len(flow.accounts) = 13
  /\ Len(flow.transactions) = 3
  /\ Len(flow.transactions[3]) = 1

\* the cases in which handleReclaim must not start a flow
NoWalletConnected == walletBase58 = Null

ScanOfAnotherWallet ==
  walletBase58 # Null /\ result.present /\ result.walletAddress # walletBase58

NothingToClose ==
  walletBase58 # Null /\ result.present /\ Len(result.accounts) = 0

\* C15: a call of handleReclaim with no wallet connected, with a scan result
\* of another wallet or with an empty account list submits no transaction and
\* changes nothing but reclaimError, which it sets in wallet mode.
C15_RefusedReclaimChangesNothing ==
  [][HandleReclaim /\ (NoWalletConnected \/ ScanOfAnotherWallet
                       \/ NothingToClose)
       => /\ UNCHANGED <<reclaiming, reclaimSignatures, rewardState, flow,
                         chunkState, reclaimSuccess, result, status, scans>>
          /\ isWalletMode => reclaimError' # ""]_vars

C15_Witness ==
  /\ reclaimError = "mismatch"
  /\ ScanOfAnotherWallet
  /\ flow.pc = "idle"
  /\ ~reclaiming

InChunkLoop == flow.pc \in {"send", "confirm"}

\* the scans issued by the step
IssuedScans == scans' \ scans

\* C16 as stated: the refresh scan a flow issues when its chunk loop ends is
\* a scan of the connected wallet.
C16_RefreshForConnectedWallet ==
  [][InChunkLoop /\ ~InChunkLoop'
       => \E sc \in IssuedScans : sc.address = walletBase58']_vars

\* C16 amended: when the chunk loop of a flow ends, by the confirmation of the
\* last chunk or by a failure, the flow issues one fresh scan of the wallet it
\* was started for and waits for it; afterwards the flow issues no other
\* refresh and submits no other transaction.
C16_RefreshOncePerFlow ==
  [][/\ InChunkLoop => flow.refreshes = 0
     /\ InChunkLoop /\ ~InChunkLoop' =>
          /\ flow'.refreshes = 1
          /\ flow'.pc \in {"refresh", "refresh_failed"}
          /\ flow'.failed <=> flow'.pc = "refresh_failed"
          /\ IssuedScans = {[id |-> flow'.awaits, address |-> flow.wallet]}
     /\ flow.refreshes = 1 /\ ~(flow.pc = "done" /\ flow'.pc = "send") =>
          /\ flow'.refreshes = 1
          /\ flow'.transactions = flow.transactions]_vars

C16_Witness ==
  /\ flow.pc = "done"
  /\ flow.failed
  /\ flow.refreshes = 1
  /\ Len(flow.transactions) = 1
  /\ flow.wallet # walletBase58

\* ------------------------------------------------------------ mint records
Answered(r, reason) == req[r].pc = "done" /\ req[r].reason = reason

\* the request inserted a row and still knows its id
InsertedRow(r) ==
  req[r].recordId # 0 /\ <<r, "insert", req[r].recordId>> \in writes

\* C17 as stated: a request that answered minted with mint address M and
\* signature S has its row at status success with M and S.
C17_MintedImpliesSuccessRow ==
  \A r \in Req :
    Answered(r, "minted") =>
      /\ InsertedRow(r)
      /\ rows[req[r].recordId].status = "success"
      /\ rows[req[r].recordId].nft_mint_address = req[r].mintAddress
      /\ rows[req[r].recordId].transaction_signature = req[r].signature

\* C17 amended: a request that answered minted with M and S sent one update
\* of the row it inserted; when the store applied it the row is at status
\* success with M and S, and when the store answered the update with an error
\* (logged, not reported) the row is still pending.
C17_MintedRowSuccessUnlessUpdateError ==
  \A r \in Req :
    Answered(r, "minted") =>
      /\ InsertedRow(r)
      /\ rows[req[r].recordId].user_wallet = req[r].wallet
      /\ \E i \in TokensBy(r) : issued[i].mint = req[r].mintAddress
      /\ ~req[r].updateError =>
           /\ rows[req[r].recordId].status = "success"
           /\ rows[req[r].recordId].nft_mint_address = req[r].mintAddress
           /\ rows[req[r].recordId].transaction_signature = req[r].signature
      /\ req[r].updateError => rows[req[r].recordId].status = "pending"

C17_Witness ==
  \E r \in Req :
    /\ Answered(r, "minted")
    /\ ~req[r].updateError
    /\ rows[req[r].recordId].status = "success"
    /\ rows[req[r].recordId].nft_mint_address = req[r].mintAddress

\* C18 as stated: a request that inserted a row and answered has left the row
\* at another status than pending, and at failed with mint_failed when the
\* issuance threw.
C18_AnsweredRowNotPending ==
  \A r \in Req :
    req[r].pc = "done" /\ InsertedRow(r) =>
      /\ rows[req[r].recordId].status # "pending"
      /\ req[r].threw =>
           /\ req[r].reason = "mint_failed"
           /\ rows[req[r].recordId].status = "failed"

\* C18 amended: when the issuance throws, the request sends an update of its
\* row to status failed with an error message and answers mint_failed (500);
\* the row of a request that answered is pending only when the store answered
\* that request's update with an error (logged, not reported).
C18_RowNotPendingUnlessUpdateError ==
  \A r \in Req :
    req[r].pc = "done" /\ InsertedRow(r) =>
      /\ req[r].threw =>
           /\ req[r].reason = "mint_failed" /\ req[r].http = 500
           /\ TokensBy(r) = {}
           /\ ~req[r].updateError =>
                /\ rows[req[r].recordId].status = "failed"
                /\ rows[req[r].recordId].error_message # Null
      /\ ~req[r].threw => req[r].reason = "minted"
      /\ rows[req[r].recordId].status = "pending" <=> req[r].updateError

C18_Witness ==
  \E r \in Req :
    /\ req[r].pc = "done" /\ InsertedRow(r)
    /\ req[r].threw
    /\ ~req[r].updateError
    /\ rows[req[r].recordId].status = "failed"

\* the latest row of the request's wallet is a success row
LatestIsSuccess(r) ==
  /\ RowIdsOf(req[r].wallet) # {}
  /\ rows[Max(RowIdsOf(req[r].wallet))].status = "success"

\* C19: a request whose lookup finds the latest row of its wallet at status
\* success answers already_minted (200) with that row's mint address (the
\* lookup itself may fail, which is answered mint_failed); it inserts no row,
\* updates no row and issues no token, then and ever after.
C19_ShortCircuitOnSuccessRow ==
  [][\A r \in Req :
       /\ req[r].pc = "lookup" /\ req'[r].pc # "lookup" /\ LatestIsSuccess(r)
            => /\ req'[r].pc = "done"
               /\ \/ /\ req'[r].reason = "already_minted"
                     /\ req'[r].http = 200
                     /\ req'[r].mintAddress =
                          rows[Max(RowIdsOf(req[r].wallet))].nft_mint_address
                  \/ req'[r].reason = "mint_failed"
               /\ rows' = rows /\ issued' = issued /\ writes' = writes
       /\ Answered(r, "already_minted")
            => /\ WritesOf(r) = {} /\ TokensBy(r) = {}
               /\ req[r].recordId = 0
               /\ \E i \in SuccessRowsOf(req[r].wallet) :
                    rows[i].nft_mint_address = req[r].mintAddress]_vars

C19_Witness ==
  \E r \in Req :
    /\ Answered(r, "already_minted")
    /\ req[r].mintAddress # 0
    /\ Len(issued) = 1

\* C20: a token is issued only by a request that inserted a pending row
\* before; a request updates no row but the one it inserted; a row changes
\* status only from pending, to success or to failed; no row is removed.
C20_RowLifecycle ==
  [][/\ Len(rows') >= Len(rows)
     /\ \A i \in 1..Len(rows) :
          /\ rows'[i].user_wallet = rows[i].user_wallet
          /\ rows'[i].status # rows[i].status =>
               /\ rows[i].status = "pending"
               /\ rows'[i].status \in {"success", "failed"}
     /\ \A i \in (Len(rows) + 1)..Len(rows') : rows'[i].status = "pending"
     /\ \A i \in (Len(issued) + 1)..Len(issued') :
          /\ InsertedRow(issued'[i].by)
          /\ rows[req[issued'[i].by].recordId].status = "pending"
     /\ \A x \in writes' :
          x[2] = "update" =>
            x[3] = req'[x[1]].recordId /\ <<x[1], "insert", x[3]>> \in writes'
     /\ \A r \in Req :
          Cardinality({x \in WritesOf(r)' : x[2] = "insert"}) <= 1]_vars

C20_Witness ==
  /\ Len(rows) = 2
  /\ rows[1].status = "failed"
  /\ rows[2].status = "success"
  /\ Len(issued) = 1

\* ------------------------------------------------------------ voice room
\* C21: a token is issued only for a message ATA_VOICE_JOIN:<room>:<nonce>
\* whose <room> is the room the grant of the token names.
C21_GrantRoomIsSignedRoom ==
  TokenIssued =>
    /\ Len(auth.message) = 4
    /\ auth.message[1] = PREFIX
    /\ auth.message[3] = ":"
    /\ auth.message[2] = auth.token.room

\* --------------------------------------------------------- failure answers
\* C22: every failure answer of the mint endpoint has the body
\* {success: false, reason, message} and its message is a fixed text, never
\* the text of an exception raised inside the handler.
C22_FailureMessagesAreFixedText ==
  \A r \in Req :
    req[r].pc = "done" /\ req[r].http >= 400 => req[r].msg = "fixed"

\* C23: a mint request whose RPC call for the reclaim transaction failed is
\* answered reclaim_verification_failed with status 502, not
\* invalid_reclaim_signature with status 400.
C23_RpcFailureAnswered502 ==
  \A r \in Req :
    req[r].pc = "done" /\ req[r].rpcThrew =>
      req[r].reason = "reclaim_verification_failed" /\ req[r].http = 502

\* ------------------------------------------------------ pending-row insert
\* the steps in which ensureNoDuplicateMint runs for request r
InGuard(r) == req[r].pc \in {"lookup", "insert"}

\* C24: when ensureNoDuplicateMint returns alreadyMinted: false for a
\* request, it has appended exactly one row, with status pending, the wallet
\* and the reclaim signature of the request, and returns the identifier of
\* that row; no step of ensureNoDuplicateMint, returning or throwing, changes
\* a row that existed before.
C24_InsertsOnePendingRow ==
  [][\A r \in Req :
       InGuard(r) /\ req'[r] # req[r] =>
         /\ SubSeq(rows', 1, Len(rows)) = rows
         /\ IF req'[r].pc = "issue"
            THEN /\ Len(rows') = Len(rows) + 1
                 /\ req'[r].recordId = Len(rows')
                 /\ rows'[Len(rows')].status = "pending"
                 /\ rows'[Len(rows')].user_wallet = req[r].wallet
                 /\ rows'[Len(rows')].reclaim_signature = req[r].sig
                 /\ req[r].sig # ""
            ELSE rows' = rows]_vars

C24_Witness ==
  \E r \in Req :
    /\ req[r].pc = "issue"
    /\ req[r].recordId = 2
    /\ rows[1].user_wallet = req[r].wallet
    /\ rows[1].status = "failed"
    /\ rows[2].status = "pending"

\* ------------------------------------------------------- the mint request
\* the scans still in flight
PendingScanIds == {sc.id : sc \in scans}

HoldsVerifiedReward ==
  \E i \in 1..Len(holdings) : holdings[i] = "ours"

\* C26: once the on-chain fallback has run, the reader of the metadata
\* account and the reader built on findByMint give the same verdict on the
\* wallet's holdings, and that verdict is HoldsVerifiedReward.
C26_ReadersAgree ==
  Ran("chain") =>
    /\ ScanHoldings(holdings, 1) = HoldsVerifiedReward
    /\ ScanHoldingsMetadataAccount(holdings, 1) = ScanHoldings(holdings, 1)
    /\ \A k \in HoldingKinds \ {"zero", "nometa"} :
         FindByMintAccepts(k) <=> (k = "ours")

\* ------------------------------------------------ requests after a success
\* row 1 is a success row of wallet w that no request of this run inserted
HadSuccessRow(w) ==
  /\ Len(rows) >= 1
  /\ rows[1].user_wallet = w
  /\ rows[1].status = "success"
  /\ \A r \in Req : <<r, "insert", 1>> \notin writes

\* the store as SpecMintLater starts from; reachable by two requests
C27_StoreReachable ==
  /\ \A r \in Req : req[r].pc = "done"
  /\ rows \in LaterStores

\* C27: a mint request for a wallet that had a success row before the request
\* started issues no token and is not answered minted.
C27_NoTokenAfterSuccessRow ==
  \A r \in Req :
    HadSuccessRow(req[r].wallet) =>
      TokensBy(r) = {} /\ req[r].reason # "minted"

\* ------------------------------------------------------ end of the flow
\* a flow passed the preconditions and has not returned yet
FlowRunning == flow.pc \notin {"idle", "done"}

\* C28: provided the awaited calls settle, every running flow returns; a flow
\* that has returned leaves reclaiming = false and rewardState other than
\* pending, and reclaiming is true exactly while a flow runs.
C28_FlowTerminates ==
  /\ [](flow.pc = "done" => ~reclaiming /\ rewardState.status # "pending")
  /\ [](reclaiming <=> FlowRunning)
  /\ FlowRunning ~> (flow.pc = "done")

C28_Witness ==
  /\ flow.pc = "done"
  /\ flow.failed
  /\ Len(flow.transactions) = 1
  /\ flow.refreshes = 1
  /\ ~reclaiming
  /\ rewardState.status = "error"

\* ------------------------------------------------- reward of another wallet
\* C29: a rewardState of minted or already comes from the mint request of a
\* flow started for the wallet that is connected now.
C29_RewardOfConnectedWallet ==
  rewardState.status \in {"minted", "already"} =>
    /\ flow.mintSent
    /\ flow.mintRequest.walletAddress = walletBase58

\* --------------------------------------------------------- overlapping scans
\* C30: when the last outstanding scan request answers and it is not the most
\* recently issued one (which has answered before), the scan result kept in
\* state stays the one the most recent request left.
C30_LatestScanWins ==
  [][\A sc \in scans :
       (scans = {sc} /\ scans' = {} /\ sc.id < nextScan - 1) =>
         result' = result]_vars

====
